---- MODULE Spec2Model ----
(***************************************************************************)
(* Model of the minimal_task Obsidian plugin (dosakkhayo/minimal_task).    *)
(*                                                                         *)
(* Two versions of the plugin are modelled:                                *)
(*   "current"  - src/unnamed/part_000 (recurring section, repeat check)   *)
(*   "20250412" - src/main_minimaltask_20250412.ts (time-stamped archive)  *)
(*                                                                         *)
(* A string is a sequence of characters, a character a one-token string;   *)
(* the line feed is the character "\n".  A file's content is one such      *)
(* string, split and joined as the code does it.  The two Korean section   *)
(* names are spelled with one token per syllable (BAN BOK / IL BAN, JAK    *)
(* EOP), since the module text is ASCII.                                   *)
(*                                                                         *)
(* onload and every invocation of processTaskFile advance from one await   *)
(* to the next, so that the user's edits, the clock, the settings tab and  *)
(* other invocations fall between the reads and the writes of a pass.      *)
(* The clock also goes on inside a loop that calls moment() in its body:   *)
(* each iteration has its own reading.  An unload leaves the invocations   *)
(* and an unfinished onload of the old plugin instance under way, and      *)
(* they read this.settings of that instance, which its open file chooser   *)
(* and the settings tab it adds after its unload still change.  The        *)
(* settings of an instance and the stored plugin data are two things: a    *)
(* change in the settings tab reaches the data when saveData() resolves.   *)
(***************************************************************************)
EXTENDS Integers, Sequences, FiniteSets, TLC

VARIABLES
    version,     \* which plugin version is installed
    settings,    \* this.settings of the plugin instance: the two paths, the two formats
    stored,      \* the plugin data loadData() returns and saveData() writes
    saves,       \* calls of saveData() under way, each with the settings it was given
    files,       \* the vault: path -> content, or Missing
    clock,       \* what moment() reports: minutes since 2024-01-01 00:00
    boot,        \* onload: where it stands, and the locals of checkRepeatTaskDates
    modals,      \* the FileSuggestModals the instance has open: the setting of each
    olds,        \* the instances unloaded with something of theirs still alive:
                 \* this.settings of each, whether it has added a settings tab
                 \* since its unload, and its open FileSuggestModals
    orphans,     \* onloads still under way of plugin instances unloaded since
    strays,      \* the instances whose handlers such onloads have registered
    pending,     \* handler invocations awaiting vault.read(file), oldest first
    runs,        \* invocations of processTaskFile past their read, each at an await
    budget,      \* how many more edits, changes of a setting, openings of a
                 \* file chooser and unloads are considered (the clock, the
                 \* rejections and the choice in an open chooser are free)
    last,        \* the last run of onload or of processTaskFile that ended:
                 \* what it read and what it left (history, for the properties)
    race         \* the files when two invocations were last waiting to read
                 \* the same content (history, for the properties)

vars == <<version, settings, stored, saves, files, clock, boot, modals, olds,
          orphans, strays, pending, runs, budget, last, race>>

----------------------------------------------------------------------------
(* Bounds of the model *)

MaxLines == 3       \* lines of the initial task file
MaxPending == 3     \* invocations waiting for their read
MaxEvents == 2      \* edits, changes of a setting, openings of a chooser and unloads
MaxRuns == 2        \* invocations past their read at the same time
MaxArchiveLines == 3  \* lines of the initial archive file
MaxChain == 1       \* invocations in a row each started by the write of the one before
MaxClock == 1       \* minutes that pass in one behaviour
MaxStrays == 1      \* plugin instances unloaded before their onload has ended

----------------------------------------------------------------------------
(* Characters and strings *)

LF == "\n"

\* JavaScript white space (\s, and what String.prototype.trim removes): blank,
\* \t, \n, \r, \f, and, written as tokens, \v (VT), U+00A0 (NBSP), U+FEFF
\* (BOM), U+2028 (LS), U+2029 (PS) and the Unicode space separators (ZS)
IsSpace(c) == c \in {" ", "\t", "\n", "\r", "\f", "VT", "NBSP", "BOM", "LS", "PS", "ZS"}

RECURSIVE TrimStart(_)
TrimStart(s) ==
    IF s = <<>> THEN <<>>
    ELSE IF IsSpace(Head(s)) THEN TrimStart(Tail(s))
    ELSE s

RECURSIVE TrimEnd(_)
TrimEnd(s) ==
    IF s = <<>> THEN <<>>
    ELSE IF IsSpace(s[Len(s)]) THEN TrimEnd(SubSeq(s, 1, Len(s) - 1))
    ELSE s

\* String.prototype.trim
Trim(s) == TrimEnd(TrimStart(s))

\* String.prototype.startsWith
StartsWith(s, p) == Len(s) >= Len(p) /\ SubSeq(s, 1, Len(p)) = p

\* String.prototype.includes
Includes(s, p) ==
    \E i \in 1..(Len(s) - Len(p) + 1) : SubSeq(s, i, i + Len(p) - 1) = p

\* the index of the first line feed of s at or after i, Len(s) + 1 when none
RECURSIVE LineEnd(_, _)
LineEnd(s, i) ==
    IF i > Len(s) THEN i
    ELSE IF s[i] = LF THEN i
    ELSE LineEnd(s, i + 1)

\* String.prototype.split("\n"): always at least one piece
RECURSIVE SplitFrom(_, _)
SplitFrom(s, i) ==
    IF LineEnd(s, i) > Len(s) THEN <<SubSeq(s, i, Len(s))>>
    ELSE <<SubSeq(s, i, LineEnd(s, i) - 1)>> \o SplitFrom(s, LineEnd(s, i) + 1)

Split(s) == SplitFrom(s, 1)

\* Array.prototype.join("\n")
RECURSIVE Join(_)
Join(ls) ==
    IF ls = <<>> THEN <<>>
    ELSE IF Len(ls) = 1 THEN ls[1]
    ELSE ls[1] \o <<LF>> \o Join(Tail(ls))

----------------------------------------------------------------------------
(* Dates and times: moment().format(...) *)

Digit(n) == CASE n = 0 -> "0" [] n = 1 -> "1" [] n = 2 -> "2" [] n = 3 -> "3"
              [] n = 4 -> "4" [] n = 5 -> "5" [] n = 6 -> "6" [] n = 7 -> "7"
              [] n = 8 -> "8" [] n = 9 -> "9"

TwoDigits(n) == <<Digit((n \div 10) % 10), Digit(n % 10)>>

\* moment().format("YYYY-MM-DD") on day d of January 2024
FormatDate(d) == <<"2", "0", "2", "4", "-", "0", "1", "-">> \o TwoDigits(d)

\* moment().format("HH:mm") at minute m of the day
FormatTime(m) == TwoDigits(m \div 60) \o <<":">> \o TwoDigits(m % 60)

\* the clock starts one minute before midnight of the first day
Start == 1439
Clocks == Start..(Start + MaxClock)

\* the day of January 2024 and the minute of the day at clock c
Today(c) == 1 + (c \div 1440)
Minute(c) == c % 1440

\* the clock at each of n iterations of a loop that begins at clock c: time
\* goes on between two iterations, never back
RECURSIVE Readings(_, _)
Readings(n, c) ==
    IF n = 0 THEN {<<>>}
    ELSE UNION {{<<c>> \o r : r \in Readings(n - 1, d)} : d \in {e \in Clocks : e >= c}}

\* the clock standing still through n iterations
Still(n, c) == [i \in 1..n |-> c]

\* the formats typed into the settings tab: "" leaves the default
DateFormats == {"", "MM-DD"}
TimeFormats == {"", "HH"}

\* moment().format(this.settings.dateFormat || "YYYY-MM-DD") on day d of January 2024
MomentDate(dateFormat, d) ==
    IF dateFormat = "MM-DD" THEN <<"0", "1", "-">> \o TwoDigits(d) ELSE FormatDate(d)

\* moment().format(this.settings.timeFormat || "HH:mm") at minute m of the day
MomentTime(timeFormat, m) ==
    IF timeFormat = "HH" THEN TwoDigits(m \div 60) ELSE FormatTime(m)

----------------------------------------------------------------------------
(* Line classification *)

HeaderMarker == <<"#", "#", "#", " ">>
RepeatHeader == HeaderMarker \o <<"BAN", "BOK", " ", "JAK", "EOP">>
PlainHeader == HeaderMarker \o <<"IL", "BAN", " ", "JAK", "EOP">>

\* the rest of the line after /^\s*[-*]\s+/, or a string no checkbox starts
\* when that does not match
AfterMarker(line) ==
    LET t == TrimStart(line) IN
    IF t # <<>> /\ t[1] \in {"-", "*"} /\ Len(t) >= 2 /\ IsSpace(t[2])
    THEN TrimStart(Tail(t))
    ELSE <<"?">>

\* /^\s*[-*]\s+\[[xX]\]/.test(line)
IsChecked(line) ==
    LET u == AfterMarker(line) IN
    Len(u) >= 3 /\ u[1] = "[" /\ u[2] \in {"x", "X"} /\ u[3] = "]"

\* /^\s*[-*]\s+\[ \]/.test(line): an unchecked task, as the user sees it
IsUnchecked(line) ==
    LET u == AfterMarker(line) IN
    Len(u) >= 3 /\ u[1] = "[" /\ u[2] = " " /\ u[3] = "]"

\* line.replace(/^\s*[-*]\s+\[[xX]\]\s*/, "")
StripCheckbox(line) ==
    IF IsChecked(line)
    THEN LET u == AfterMarker(line) IN TrimStart(SubSeq(u, 4, Len(u)))
    ELSE line

\* /\([^)]+\)\s*$/ matches s from position i
AnnotationAt(s, i) ==
    /\ s[i] = "("
    /\ \E j \in (i + 2)..Len(s) :
         /\ s[j] = ")"
         /\ \A k \in (i + 1)..(j - 1) : s[k] # ")"
         /\ \A k \in (j + 1)..Len(s) : IsSpace(s[k])

\* s.replace(/\([^)]+\)\s*$/, ""): the leftmost match is removed
StripAnnotation(s) ==
    LET hits == {i \in 1..Len(s) : AnnotationAt(s, i)} IN
    IF hits = {} THEN s
    ELSE LET i == CHOOSE h \in hits : \A g \in hits : h <= g IN SubSeq(s, 1, i - 1)

\* the task text of a checked line
TaskText(line) == Trim(StripAnnotation(StripCheckbox(line)))

\* a slip: the rewritten line keeps its tick
UncheckedLine_Ticked(taskText, date) ==
    <<"-", " ", "[", "x", "]", " ">> \o taskText \o <<" ", "(">> \o date \o <<")">>

\* `- [ ] ${taskText} (${date})`
UncheckedLine(taskText, date) ==
    <<"-", " ", "[", " ", "]", " ">> \o taskText \o <<" ", "(">> \o date \o <<")">>

----------------------------------------------------------------------------
(* Task Extractor: the loop of processTaskFile *)

\* a slip: a plain checked task stays in the task file
ExtractStep_KeepsPlain(st, line, day, dateFormat) ==
    IF Trim(line) = RepeatHeader
    THEN [st EXCEPT !.inRepeat = TRUE, !.remaining = Append(@, line)]
    ELSE IF Trim(line) = PlainHeader
    THEN [st EXCEPT !.inRepeat = FALSE, !.remaining = Append(@, line)]
    ELSE IF StartsWith(line, HeaderMarker)
    THEN [st EXCEPT !.inRepeat = FALSE, !.remaining = Append(@, line)]
    ELSE IF IsChecked(line)
    THEN IF st.inRepeat
         THEN [st EXCEPT
                 !.remaining = Append(@, UncheckedLine(TaskText(line), MomentDate(dateFormat, day + 1))),
                 !.doneTasks = Append(@, Trim(line))]
         ELSE [st EXCEPT !.remaining = Append(@, line),
                         !.doneTasks = Append(@, Trim(line))]
    ELSE [st EXCEPT !.remaining = Append(@, line)]

\* one iteration of the loop of the current version; st is
\* [inRepeat, remaining, doneTasks], day the day moment() reports in it
ExtractStep(st, line, day, dateFormat) ==
    IF Trim(line) = RepeatHeader
    THEN [st EXCEPT !.inRepeat = TRUE, !.remaining = Append(@, line)]
    ELSE IF Trim(line) = PlainHeader
    THEN [st EXCEPT !.inRepeat = FALSE, !.remaining = Append(@, line)]
    ELSE IF StartsWith(line, HeaderMarker)
    THEN [st EXCEPT !.inRepeat = FALSE, !.remaining = Append(@, line)]
    ELSE IF IsChecked(line)
    THEN IF st.inRepeat
         THEN [st EXCEPT
                 !.remaining = Append(@, UncheckedLine(TaskText(line), MomentDate(dateFormat, day + 1))),
                 !.doneTasks = Append(@, Trim(line))]
         ELSE [st EXCEPT !.doneTasks = Append(@, Trim(line))]
    ELSE [st EXCEPT !.remaining = Append(@, line)]

\* the loop; at[i] is the clock in iteration i, where moment() is called anew
RECURSIVE ExtractLoop(_, _, _, _, _)
ExtractLoop(lines, i, st, at, dateFormat) ==
    IF i > Len(lines) THEN st
    ELSE ExtractLoop(lines, i + 1,
                     ExtractStep(st, lines[i], Today(at[i]), dateFormat),
                     at, dateFormat)

\* remaining and doneTasks of processTaskFile (current version) on a content
Extract(content, at, dateFormat) ==
    ExtractLoop(Split(content), 1,
                [inRepeat |-> FALSE, remaining |-> <<>>, doneTasks |-> <<>>],
                at, dateFormat)

\* one iteration of the loop of the 20250412 version
ExtractStep0412(st, line, minute, timeFormat) ==
    IF IsChecked(line)
    THEN [st EXCEPT !.doneTasks =
            Append(@, Trim(line) \o <<" ", "(">> \o MomentTime(timeFormat, minute)
                        \o <<")">>)]
    ELSE [st EXCEPT !.remaining = Append(@, line)]

\* the loop; at[i] is the clock in iteration i, where moment() is called anew
RECURSIVE ExtractLoop0412(_, _, _, _, _)
ExtractLoop0412(lines, i, st, at, timeFormat) ==
    IF i > Len(lines) THEN st
    ELSE ExtractLoop0412(lines, i + 1,
                         ExtractStep0412(st, lines[i], Minute(at[i]), timeFormat),
                         at, timeFormat)

\* remaining and doneTasks of processTaskFile (20250412 version)
Extract0412(content, at, timeFormat) ==
    ExtractLoop0412(Split(content), 1,
                    [remaining |-> <<>>, doneTasks |-> <<>>], at, timeFormat)

\* the loop of processTaskFile of version v on lines, at[i] the clock in
\* iteration i
ExtractLines(v, lines, at, dateFormat, timeFormat) ==
    IF v = "current"
    THEN ExtractLoop(lines, 1,
                     [inRepeat |-> FALSE, remaining |-> <<>>, doneTasks |-> <<>>],
                     at, dateFormat)
    ELSE ExtractLoop0412(lines, 1, [remaining |-> <<>>, doneTasks |-> <<>>],
                         at, timeFormat)

\* a slip: the pass goes on when nothing is completed
NothingDone_Never(doneTasks) == FALSE

\* doneTasks.length === 0, on which processTaskFile returns
NothingDone(doneTasks) == Len(doneTasks) = 0

----------------------------------------------------------------------------
(* Archive Merger: the loop and the tail of appendDoneTasks *)

\* `### ${moment().format(dateFormat)}` under the default format
DateHeader(day) == HeaderMarker \o FormatDate(day)

\* `### ${moment().format(dateFormat)}`
DateHeaderAs(dateFormat, day) == HeaderMarker \o MomentDate(dateFormat, day)

\* a slip: the target section is not closed at the next header
MergeStep_NeverCloses(st, line, tasks, dateHeader) ==
    IF Trim(line) = dateHeader
    THEN [newContent |-> Append(st.newContent, line),
          inTargetSection |-> TRUE, sectionFound |-> TRUE]
    ELSE IF FALSE /\ StartsWith(line, HeaderMarker)
    THEN [st EXCEPT !.newContent = (@ \o tasks) \o <<line>>,
                    !.inTargetSection = FALSE]
    ELSE [st EXCEPT !.newContent = Append(@, line)]

\* one iteration; st is [newContent, inTargetSection, sectionFound]
MergeStep(st, line, tasks, dateHeader) ==
    IF Trim(line) = dateHeader
    THEN [newContent |-> Append(st.newContent, line),
          inTargetSection |-> TRUE, sectionFound |-> TRUE]
    ELSE IF st.inTargetSection /\ StartsWith(line, HeaderMarker)
    THEN [st EXCEPT !.newContent = (@ \o tasks) \o <<line>>,
                    !.inTargetSection = FALSE]
    ELSE [st EXCEPT !.newContent = Append(@, line)]

RECURSIVE MergeLoop(_, _, _, _, _)
MergeLoop(lines, i, st, tasks, dateHeader) ==
    IF i > Len(lines) THEN st
    ELSE MergeLoop(lines, i + 1, MergeStep(st, lines[i], tasks, dateHeader),
                   tasks, dateHeader)

\* a slip: a new section is opened whenever the target section is not the last
MergeTail_Reopens(st, tasks, dateHeader) ==
    IF st.sectionFound /\ st.inTargetSection
    THEN st.newContent \o tasks
    ELSE IF ~st.inTargetSection
    THEN (IF Len(st.newContent) > 0 THEN Append(st.newContent, <<>>)
          ELSE st.newContent) \o <<dateHeader>> \o tasks
    ELSE st.newContent

\* a slip: the new section's header is written after its tasks
MergeTail_HeaderLast(st, tasks, dateHeader) ==
    IF st.sectionFound /\ st.inTargetSection
    THEN st.newContent \o tasks
    ELSE IF ~st.sectionFound
    THEN (IF Len(st.newContent) > 0 THEN Append(st.newContent, <<>>)
          ELSE st.newContent) \o tasks \o <<dateHeader>>
    ELSE st.newContent

\* what is done with the tasks after the loop
MergeTail(st, tasks, dateHeader) ==
    IF st.sectionFound /\ st.inTargetSection
    THEN st.newContent \o tasks
    ELSE IF ~st.sectionFound
    THEN (IF Len(st.newContent) > 0 THEN Append(st.newContent, <<>>)
          ELSE st.newContent) \o <<dateHeader>> \o tasks
    ELSE st.newContent

\* the content appendDoneTasks writes: newContent.join("\n").trim()
Merge(doneContent, tasks, dateHeader) ==
    Trim(Join(MergeTail(
        MergeLoop(Split(doneContent), 1,
                  [newContent |-> <<>>, inTargetSection |-> FALSE,
                   sectionFound |-> FALSE], tasks, dateHeader),
        tasks, dateHeader)))

----------------------------------------------------------------------------
(* Repeat-Date Checker: the loop of checkRepeatTaskDates *)

\* one iteration; st is [inRepeat, updatedLines, hasChanges]
RepeatStep(st, line, day, dateFormat) ==
    IF Trim(line) = RepeatHeader
    THEN [st EXCEPT !.inRepeat = TRUE, !.updatedLines = Append(@, line)]
    ELSE IF Trim(line) = PlainHeader
    THEN [st EXCEPT !.inRepeat = FALSE, !.updatedLines = Append(@, line)]
    ELSE IF StartsWith(line, HeaderMarker)
    THEN [st EXCEPT !.inRepeat = FALSE, !.updatedLines = Append(@, line)]
    ELSE IF st.inRepeat /\ IsChecked(line)
            /\ Includes(line, <<"(">> \o MomentDate(dateFormat, day) \o <<")">>)
    THEN [st EXCEPT
            !.updatedLines = Append(@, UncheckedLine(TaskText(line), MomentDate(dateFormat, day))),
            !.hasChanges = TRUE]
    ELSE [st EXCEPT !.updatedLines = Append(@, line)]

RECURSIVE RepeatLoop(_, _, _, _, _)
RepeatLoop(lines, i, st, day, dateFormat) ==
    IF i > Len(lines) THEN st
    ELSE RepeatLoop(lines, i + 1, RepeatStep(st, lines[i], day, dateFormat),
                    day, dateFormat)

\* updatedLines and hasChanges of checkRepeatTaskDates on a content
CheckRepeat(content, day, dateFormat) ==
    RepeatLoop(Split(content), 1,
               [inRepeat |-> FALSE, updatedLines |-> <<>>, hasChanges |-> FALSE],
               day, dateFormat)

----------------------------------------------------------------------------
(* The vault, the settings and the clock *)

TaskPath == "task.md"
DonePath == "task_done.md"
Paths == {TaskPath, DonePath}

\* DEFAULT_SETTINGS (dateFormat "" selects YYYY-MM-DD, timeFormat "" HH:mm;
\* timeFormat is a setting of the 20250412 version only)
DEFAULT_SETTINGS ==
    [taskFile |-> TaskPath, doneFile |-> DonePath, dateFormat |-> "", timeFormat |-> ""]

Missing == [exists |-> FALSE, content |-> <<>>]
File(content) == [exists |-> TRUE, content |-> content]

\* onload has reached the end of its body: the handlers are registered
loaded == boot.pc = "on"

\* the plugin instances: 0 is the one enabled now (or the next one, while the
\* plugin is disabled), i > 0 the i-th of those unloaded with something of
\* theirs still alive
Instances == 0..Len(olds)

\* this.settings of instance i, whether it has a settings tab, and the
\* FileSuggestModals it has open: the setting each is for, in the order of
\* their opening
SettingsAt(i) == IF i = 0 THEN settings ELSE olds[i].cfg
TabOf(i) == IF i = 0 THEN boot.tab ELSE olds[i].tab
ModalsOf(i) == IF i = 0 THEN modals ELSE olds[i].modals

\* this.settings as an invocation or an onload sees it when it goes on: the
\* settings of the plugin instance it belongs to, as they are by then
SettingsOf(r) == SettingsAt(r.inst)

\* the invocations the handlers registered by unloaded instances start
RECURSIVE StrayNotes(_, _, _, _)
StrayNotes(path, origin, chain, i) ==
    IF i > Len(strays) THEN <<>>
    ELSE (IF path = SettingsAt(strays[i]).taskFile
          THEN <<[path |-> path, origin |-> origin, chain |-> chain,
                  inst |-> strays[i]]>>
          ELSE <<>>) \o StrayNotes(path, origin, chain, i + 1)

\* the invocations of processTaskFile a "modify" of path starts: each handler
\* returns at once unless file.path === this.settings.taskFile, and calls
\* processTaskFile, which runs up to its vault.read, when it is; chain tells
\* how many invocations in a row led to this one, each by its write
Notify(path, origin, chain) ==
    (IF loaded /\ path = settings.taskFile
     THEN <<[path |-> path, origin |-> origin, chain |-> chain, inst |-> 0]>>
     ELSE <<>>) \o StrayNotes(path, origin, chain, 1)

\* the invocations an "editor-change" in path starts (20250412 version, whose
\* onload registers this handler next to the other)
NotifyEditor(path) ==
    IF version = "20250412"
    THEN (IF loaded /\ path = settings.taskFile
          THEN <<[path |-> path, origin |-> "editor", chain |-> 0, inst |-> 0]>>
          ELSE <<>>) \o StrayNotes(path, "editor", 0, 1)
    ELSE <<>>

\* the invocations of processTaskFile that are past their read
Procs == 1..MaxRuns

\* a run of onload or of processTaskFile: its locals, and for the properties
\* what it read, what it wrote and what it raised
NoRun ==
    [pc |-> "idle", op |-> "none", origin |-> "none", chain |-> 0,
     inst |-> 0,
     path |-> "", donePath |-> "", src |-> <<>>,
     at |-> <<>>, day |-> 0, headerDay |-> 0, dateFormat |-> "",
     remaining |-> <<>>, doneTasks |-> <<>>, newContent |-> <<>>,
     arch |-> Missing, archRead |-> <<>>,
     taskAfter |-> <<>>, archAfter |-> <<>>,
     writes |-> 0, raised |-> 0, failed |-> FALSE, changed |-> FALSE]

\* an invocation slot that is free
Idle == NoRun

\* onload not called; tab tells whether the settings tab has been added, inst
\* which instance the onload belongs to
Off == [pc |-> "off", tab |-> FALSE, path |-> "", src |-> <<>>,
        updatedLines |-> <<>>, day |-> 0, dateFormat |-> "",
        inst |-> 0]

NoRace == [on |-> FALSE, path |-> "", src |-> <<>>, arch |-> Missing]

\* a sequence without its k-th element
Without(q, k) == SubSeq(q, 1, k - 1) \o SubSeq(q, k + 1, Len(q))

\* the free slot a new run takes
FreeSlots == {p \in Procs : runs[p].pc = "idle"}
NextSlot == CHOOSE p \in FreeSlots : \A q \in FreeSlots : p <= q

\* two invocations wait to read the same content while no other is running
RaceAfter(pend, fs) ==
    IF /\ Len(pend) >= 2
       /\ \A p \in Procs : runs[p].pc = "idle"
       /\ \A k \in 1..Len(pend) : pend[k].path = pend[1].path
    THEN [on |-> TRUE, path |-> pend[1].path, src |-> fs[pend[1].path].content,
          arch |-> fs[settings.doneFile]]
    ELSE NoRace

----------------------------------------------------------------------------
(* processTaskFile and appendDoneTasks, from await to await *)

\* the clocks the loop of invocation k can meet, iteration by iteration
ReadingsFor(k) ==
    IF k \in 1..Len(pending)
    THEN Readings(Len(Split(files[pending[k].path].content)), clock)
    ELSE {}

\* the handler's invocation k: await vault.read(file) resolves, then the loop,
\* in whose iteration i the clock is at[i], and the return when nothing is
\* completed; or the read rejects
HandleModify(k, at, reject) ==
    /\ k \in 1..Len(pending)
    /\ pending' = Without(pending, k)
    /\ \E lines \in {Split(files[pending[k].path].content)} :
       /\ at \in Readings(Len(lines), clock)
       /\ reject => at = Still(Len(lines), clock)
       /\ clock' = at[Len(lines)]
       /\ IF reject
          THEN /\ last' = [NoRun EXCEPT !.pc = "done", !.op = "pass",
                              !.origin = pending[k].origin, !.chain = pending[k].chain,
                              !.inst = pending[k].inst,
                              !.path = pending[k].path,
                              !.failed = TRUE]
               /\ race' = NoRace
               /\ UNCHANGED runs
          ELSE \E ex \in {ExtractLines(version, lines, at,
                                       SettingsOf(pending[k]).dateFormat,
                                       SettingsOf(pending[k]).timeFormat)} :
               \E run \in {[NoRun EXCEPT !.pc = "modifyTask", !.op = "pass",
                              !.origin = pending[k].origin, !.chain = pending[k].chain,
                              !.inst = pending[k].inst,
                              !.path = pending[k].path,
                              !.src = files[pending[k].path].content,
                              !.at = at, !.day = Today(at[1]),
                              !.headerDay = Today(at[Len(lines)]),
                              !.dateFormat = SettingsOf(pending[k]).dateFormat,
                              !.remaining = ex.remaining, !.doneTasks = ex.doneTasks,
                              !.arch = files[SettingsOf(pending[k]).doneFile],
                              !.taskAfter = files[pending[k].path].content]} :
                 IF NothingDone(ex.doneTasks)
                 THEN /\ last' = [run EXCEPT !.pc = "done"]
                      /\ UNCHANGED <<runs, race>>
                 ELSE /\ FreeSlots # {}
                      /\ runs' = [runs EXCEPT ![NextSlot] = run]
                      /\ UNCHANGED <<last, race>>
    /\ UNCHANGED <<version, olds, modals, stored, saves, settings, files, boot, orphans, strays, budget>>

\* await vault.modify(file, remaining.join("\n")), then the date header and
\* getAbstractFileByPath(this.settings.doneFile)
PassModifyTask(p, reject) ==
    /\ runs[p].pc = "modifyTask"
    /\ IF reject
       THEN /\ last' = [runs[p] EXCEPT !.pc = "done", !.writes = 1, !.failed = TRUE]
            /\ runs' = [runs EXCEPT ![p] = Idle]
            /\ race' = NoRace
            /\ UNCHANGED <<files, pending>>
       ELSE \E notes \in {Notify(runs[p].path, "own", runs[p].chain + 1)},
               done \in {SettingsOf(runs[p]).doneFile} :
            \E fs \in {[files EXCEPT ![runs[p].path] = File(Join(runs[p].remaining))]} :
              /\ Len(pending) + Len(notes) <= MaxPending
              /\ notes # <<>> => runs[p].chain < MaxChain
              /\ files' = fs
              /\ pending' = pending \o notes
              /\ runs' = [runs EXCEPT ![p] =
                           [@ EXCEPT !.pc = IF fs[done].exists
                                            THEN "readDone" ELSE "create",
                                     !.writes = 1, !.raised = Len(notes),
                                     !.changed = TRUE,
                                     !.taskAfter = Join(runs[p].remaining),
                                     !.headerDay = Today(clock),
                                     !.donePath = done,
                                     !.arch = fs[done]]]
              /\ UNCHANGED <<last, race>>
    /\ UNCHANGED <<version, olds, modals, stored, saves, settings, clock, boot, orphans, strays, budget>>

\* await vault.create(this.settings.doneFile, ""): rejects when the path
\* exists by now
PassCreate(p, reject) ==
    /\ runs[p].pc = "create"
    /\ reject => ~files[runs[p].donePath].exists
    /\ IF reject \/ files[runs[p].donePath].exists
       THEN /\ last' = [runs[p] EXCEPT !.pc = "done", !.writes = @ + 1, !.failed = TRUE]
            /\ runs' = [runs EXCEPT ![p] = Idle]
            /\ race' = IF reject THEN NoRace ELSE race
            /\ UNCHANGED files
       ELSE /\ files' = [files EXCEPT ![runs[p].donePath] = File(<<>>)]
            /\ runs' = [runs EXCEPT ![p].pc = "readDone", ![p].writes = @ + 1]
            /\ UNCHANGED <<last, race>>
    /\ UNCHANGED <<version, olds, modals, stored, saves, settings, clock, boot, orphans, strays, pending, budget>>

\* await vault.read(doneTFile), then the merge loop, its tail, join and trim
PassReadDone(p, reject) ==
    /\ runs[p].pc = "readDone"
    /\ IF reject
       THEN /\ last' = [runs[p] EXCEPT !.pc = "done", !.failed = TRUE]
            /\ runs' = [runs EXCEPT ![p] = Idle]
            /\ race' = NoRace
       ELSE /\ runs' = [runs EXCEPT
                          ![p].pc = "modifyDone",
                          ![p].archRead = files[runs[p].donePath].content,
                          ![p].newContent =
                             Merge(files[runs[p].donePath].content, runs[p].doneTasks,
                                   DateHeaderAs(runs[p].dateFormat, runs[p].headerDay))]
            /\ UNCHANGED <<last, race>>
    /\ UNCHANGED <<version, olds, modals, stored, saves, settings, files, clock, boot, orphans, strays, pending, budget>>

\* await vault.modify(doneTFile, newContent.join("\n").trim())
PassModifyDone(p, reject) ==
    /\ runs[p].pc = "modifyDone"
    /\ IF reject
       THEN /\ last' = [runs[p] EXCEPT !.pc = "done", !.writes = @ + 1, !.failed = TRUE]
            /\ race' = NoRace
            /\ UNCHANGED <<files, pending>>
       ELSE \E notes \in {Notify(runs[p].donePath, "own", runs[p].chain + 1)} :
              /\ Len(pending) + Len(notes) <= MaxPending
              /\ notes # <<>> => runs[p].chain < MaxChain
              /\ files' = [files EXCEPT ![runs[p].donePath] = File(runs[p].newContent)]
              /\ pending' = pending \o notes
              /\ last' = [runs[p] EXCEPT !.pc = "done", !.writes = @ + 1,
                                         !.raised = @ + Len(notes),
                                         !.archAfter = runs[p].newContent]
              /\ UNCHANGED race
    /\ runs' = [runs EXCEPT ![p] = Idle]
    /\ UNCHANGED <<version, olds, modals, stored, saves, settings, clock, boot, orphans, strays, budget>>

----------------------------------------------------------------------------
(* onload and checkRepeatTaskDates, from await to await *)

\* the plugin is enabled: onload is called and runs up to await this.loadData()
OnloadCall ==
    /\ boot.pc = "off"
    /\ boot' = [Off EXCEPT !.pc = "load"]
    /\ last' = NoRun
    /\ UNCHANGED <<version, olds, modals, settings, stored, saves, files, clock, orphans, strays,
                   pending, runs, budget, race>>

\* what follows await this.loadData() in an onload, cfg being the settings it
\* has loaded: the settings tab; the 20250412 version registers its two
\* handlers; the current version enters checkRepeatTaskDates, which returns
\* at once when the task file is no file, and waits for its read otherwise
LoadStep(cfg) ==
    IF version = "current" /\ files[cfg.taskFile].exists
    THEN [Off EXCEPT !.pc = "read", !.tab = TRUE, !.path = cfg.taskFile]
    ELSE [Off EXCEPT !.pc = "on", !.tab = TRUE]

\* await this.loadData() resolves: this.settings = Object.assign({},
\* DEFAULT_SETTINGS, data), then the rest of onload up to its next await; or
\* it rejects, and onload with it
OnloadStart(reject) ==
    /\ boot.pc = "load"
    /\ boot' = IF reject THEN [Off EXCEPT !.pc = "failed"] ELSE LoadStep(stored)
    /\ settings' = IF reject THEN settings ELSE stored
    /\ last' = NoRun
    /\ race' = IF reject THEN NoRace ELSE race
    /\ UNCHANGED <<version, olds, modals, stored, saves, files, clock, orphans, strays, pending,
                   runs, budget>>

\* what await vault.read(taskFile) and the loop of checkRepeatTaskDates make
\* of an onload b that waits to read, under the settings cfg: the onload as it
\* waits to write, or ended with nothing to write, and the run that ended
ReadStep(b, cfg) ==
    LET c == CheckRepeat(files[b.path].content, Today(clock), cfg.dateFormat) IN
    IF c.hasChanges
    THEN [boot |-> [b EXCEPT !.pc = "modify", !.src = files[b.path].content,
                             !.updatedLines = c.updatedLines,
                             !.day = Today(clock), !.dateFormat = cfg.dateFormat],
          last |-> NoRun]
    ELSE [boot |-> [Off EXCEPT !.pc = "on", !.tab = TRUE],
          last |-> [NoRun EXCEPT !.pc = "done", !.op = "onload",
                      !.path = b.path, !.src = files[b.path].content,
                      !.day = Today(clock), !.dateFormat = cfg.dateFormat,
                      !.remaining = c.updatedLines,
                      !.taskAfter = files[b.path].content]]

\* the run of an onload b that waited to write, as it ends
WriteStep(b) ==
    [NoRun EXCEPT !.pc = "done", !.op = "onload", !.path = b.path,
       !.src = b.src, !.day = b.day, !.dateFormat = b.dateFormat,
       !.remaining = b.updatedLines, !.writes = 1]

\* await vault.read(taskFile), then the loop; with no change the handler is
\* registered; a rejection rejects onload before it registers the handler
OnloadRead(reject) ==
    /\ boot.pc = "read"
    /\ IF reject
       THEN /\ boot' = [Off EXCEPT !.pc = "failed", !.tab = TRUE]
            /\ last' = [NoRun EXCEPT !.pc = "done", !.op = "onload",
                           !.path = boot.path, !.failed = TRUE]
            /\ race' = NoRace
       ELSE \E r \in {ReadStep(boot, settings)} :
            /\ boot' = r.boot
            /\ last' = r.last
            /\ UNCHANGED race
    /\ UNCHANGED <<version, olds, modals, stored, saves, settings, files, clock, orphans, strays, pending, runs, budget>>

\* await vault.modify(taskFile, updatedLines.join("\n")), then the handler is
\* registered, too late for the notification of this write; a rejection
\* rejects onload before it registers the handler
OnloadModify(reject) ==
    /\ boot.pc = "modify"
    /\ IF reject
       THEN /\ boot' = [Off EXCEPT !.pc = "failed", !.tab = TRUE]
            /\ last' = [WriteStep(boot) EXCEPT !.failed = TRUE]
            /\ race' = NoRace
            /\ UNCHANGED <<files, pending>>
       ELSE \E notes \in {Notify(boot.path, "onload", 0)} :
            /\ Len(pending) + Len(notes) <= MaxPending
            /\ boot' = [Off EXCEPT !.pc = "on", !.tab = TRUE]
            /\ files' = [files EXCEPT ![boot.path] = File(Join(boot.updatedLines))]
            /\ pending' = pending \o notes
            /\ last' = [WriteStep(boot) EXCEPT !.changed = TRUE,
                                               !.raised = Len(notes),
                                               !.taskAfter = Join(boot.updatedLines)]
            /\ UNCHANGED race
    /\ UNCHANGED <<version, olds, modals, stored, saves, settings, clock, orphans, strays, runs, budget>>

\* an invocation or an onload of the instance unloaded now belongs to the
\* unloaded instance n from now on
Retag(r, n) == IF r.inst = 0 THEN [r EXCEPT !.inst = n] ELSE r

\* something of the instance enabled now goes on after its unload: its onload,
\* an invocation of processTaskFile, an open FileSuggestModal
Survives ==
    \/ boot.pc \in {"load", "read", "modify"}
    \/ modals # <<>>
    \/ \E k \in 1..Len(pending) : pending[k].inst = 0
    \/ \E p \in Procs : runs[p].pc # "idle" /\ runs[p].inst = 0

\* the plugin is disabled or the app closed: the settings tab is removed and
\* the registered handlers are detached; invocations and calls of saveData()
\* under way go on, with this.settings of the unloaded instance, and so does
\* onload when it has not ended, to add its settings tab and register its
\* handlers all the same; a FileSuggestModal stays open; the next onload
\* belongs to a new instance
Unload ==
    /\ boot.pc \in {"load", "read", "modify", "on", "failed"}
    /\ budget > 0
    /\ budget' = budget - 1
    /\ boot' = Off
    /\ settings' = DEFAULT_SETTINGS
    /\ modals' = <<>>
    /\ IF Survives
       THEN \E n \in {Len(olds) + 1} :
            /\ olds' = Append(olds, [cfg |-> settings, tab |-> FALSE, modals |-> modals])
            /\ IF boot.pc \in {"load", "read", "modify"}
               THEN /\ Len(orphans) + Len(strays) < MaxStrays
                    /\ orphans' = Append(orphans, [boot EXCEPT !.inst = n, !.tab = FALSE])
               ELSE UNCHANGED orphans
            /\ pending' = [k \in 1..Len(pending) |-> Retag(pending[k], n)]
            /\ runs' = [p \in Procs |-> Retag(runs[p], n)]
       ELSE UNCHANGED <<olds, orphans, pending, runs>>
    /\ last' = NoRun
    /\ race' = NoRace
    /\ UNCHANGED <<version, stored, saves, files, clock, strays>>

\* the onload k of an unloaded instance: await this.loadData() resolves, the
\* settings of that instance are assigned, then the rest of onload up to its
\* next await: it adds the settings tab, and registers the handlers when it
\* reaches its end; or loadData() rejects
OrphanLoad(k, reject) ==
    /\ k \in 1..Len(orphans)
    /\ orphans[k].pc = "load"
    /\ IF reject
       THEN /\ orphans' = Without(orphans, k)
            /\ UNCHANGED <<strays, olds>>
       ELSE \E b \in {LoadStep(stored)}, n \in {orphans[k].inst} :
            /\ olds' = [olds EXCEPT ![n].cfg = stored, ![n].tab = TRUE]
            /\ IF b.pc = "read"
               THEN /\ orphans' = [orphans EXCEPT ![k] = [b EXCEPT !.inst = n, !.tab = FALSE]]
                    /\ UNCHANGED strays
               ELSE /\ orphans' = Without(orphans, k)
                    /\ strays' = Append(strays, n)
    /\ last' = NoRun
    /\ race' = IF reject THEN NoRace ELSE race
    /\ UNCHANGED <<version, settings, stored, saves, files, clock, boot, modals,
                   pending, runs, budget>>

\* the onload k of an unloaded instance: await vault.read(taskFile), then the
\* loop; with no change its handler is registered
OrphanRead(k, reject) ==
    /\ k \in 1..Len(orphans)
    /\ orphans[k].pc = "read"
    /\ IF reject
       THEN /\ orphans' = Without(orphans, k)
            /\ last' = [NoRun EXCEPT !.pc = "done", !.op = "onload",
                           !.path = orphans[k].path, !.failed = TRUE]
            /\ race' = NoRace
            /\ UNCHANGED strays
       ELSE \E r \in {ReadStep(orphans[k], SettingsOf(orphans[k]))} :
            /\ IF r.boot.pc = "modify"
               THEN /\ orphans' = [orphans EXCEPT ![k] = r.boot]
                    /\ UNCHANGED strays
               ELSE /\ orphans' = Without(orphans, k)
                    /\ strays' = Append(strays, orphans[k].inst)
            /\ last' = r.last
            /\ UNCHANGED race
    /\ UNCHANGED <<version, olds, modals, stored, saves, settings, files, clock, boot, pending, runs, budget>>

\* the onload k of an unloaded instance: await vault.modify(taskFile, ...),
\* then its handler is registered
OrphanModify(k, reject) ==
    /\ k \in 1..Len(orphans)
    /\ orphans[k].pc = "modify"
    /\ orphans' = Without(orphans, k)
    /\ IF reject
       THEN /\ last' = [WriteStep(orphans[k]) EXCEPT !.failed = TRUE]
            /\ race' = NoRace
            /\ UNCHANGED <<files, pending, strays>>
       ELSE \E notes \in {Notify(orphans[k].path, "onload", 0)} :
            /\ Len(pending) + Len(notes) <= MaxPending
            /\ files' = [files EXCEPT ![orphans[k].path] =
                           File(Join(orphans[k].updatedLines))]
            /\ pending' = pending \o notes
            /\ strays' = Append(strays, orphans[k].inst)
            /\ last' = [WriteStep(orphans[k]) EXCEPT
                          !.changed = TRUE, !.raised = Len(notes),
                          !.taskAfter = Join(orphans[k].updatedLines)]
            /\ UNCHANGED race
    /\ UNCHANGED <<version, olds, modals, stored, saves, settings, clock, boot, runs, budget>>

----------------------------------------------------------------------------
(* The environment: the user's edits, the settings tab and the clock *)

\* line i with its box ticked, as the editor does it
TickBox(line) ==
    LET k == Len(line) - Len(AfterMarker(line)) IN [line EXCEPT ![k + 2] = "x"]

\* the user ticks the box of line i of the file path: the vault raises
\* "modify", and the workspace "editor-change", which the 20250412 version
\* handles as well
UserCheck(path, i) ==
    /\ files[path].exists
    /\ budget > 0
    /\ budget' = budget - 1
    /\ \E lines \in {Split(files[path].content)} :
       /\ i \in 1..Len(lines)
       /\ IsUnchecked(lines[i])
       /\ \E fs \in {[files EXCEPT ![path] =
                        File(Join([lines EXCEPT ![i] = TickBox(lines[i])]))]} :
          \E notes \in {Notify(path, "external", 0) \o NotifyEditor(path)} :
            /\ Len(pending) + Len(notes) <= MaxPending
            /\ files' = fs
            /\ pending' = pending \o notes
            /\ race' = RaceAfter(pending \o notes, fs)
    /\ last' = NoRun
    /\ UNCHANGED <<version, olds, modals, stored, saves, settings, clock, boot, orphans, strays, runs>>

\* the file path is saved with its content as it is, while a handler listens
\* for it: the vault raises "modify"
UserSave(path) ==
    /\ files[path].exists
    /\ budget > 0
    /\ budget' = budget - 1
    /\ \E notes \in {Notify(path, "external", 0)} :
       /\ notes # <<>>
       /\ Len(pending) + Len(notes) <= MaxPending
       /\ pending' = pending \o notes
       /\ race' = RaceAfter(pending \o notes, files)
    /\ last' = NoRun
    /\ UNCHANGED <<version, olds, modals, stored, saves, settings, files, clock, boot, orphans, strays, runs>>

\* a minute passes
Tick ==
    /\ clock < Start + MaxClock
    /\ clock' = clock + 1
    /\ last' = NoRun
    /\ race' = NoRace
    /\ UNCHANGED <<version, olds, modals, stored, saves, settings, files, boot, orphans, strays, pending, runs, budget>>

\* the text fields of the settings tab and what can be typed into them, white
\* space around it or not; a path or a format is one token of the typed text
Fields == {"taskFile", "doneFile", "dateFormat", "timeFormat"}
Values(field) ==
    IF field \in {"taskFile", "doneFile"} THEN Paths
    ELSE IF field = "dateFormat" THEN DateFormats
    ELSE TimeFormats
TypedValues(field) ==
    {<<v>> : v \in Values(field)} \cup {<<" ", v, "\f">> : v \in Values(field)}

\* value.trim() of a typed text
TrimValue(typed) ==
    LET t == Trim(typed) IN IF t = <<>> \/ t = <<"">> THEN "" ELSE t[1]

\* this.settings of instance i become cfg and saveSettings() is called, which
\* hands them to saveData()
Assign(i, cfg) ==
    /\ IF i = 0
       THEN settings' = cfg /\ UNCHANGED olds
       ELSE olds' = [olds EXCEPT ![i].cfg = cfg] /\ UNCHANGED settings
    /\ saves' = Append(saves, cfg)

\* the FileSuggestModals of instance i become ms
SetModals(i, ms) ==
    IF i = 0
    THEN modals' = ms /\ UNCHANGED olds
    ELSE olds' = [olds EXCEPT ![i].modals = ms] /\ UNCHANGED modals

\* onChange of a text field of the settings tab of instance i: the tab onload
\* has added, which stays when onload is rejected later, and which an onload
\* that goes on after the unload of its instance adds all the same; the
\* setting is assigned and saveSettings() called
ChangeSetting(i, field, typed) ==
    /\ i \in Instances
    /\ TabOf(i)
    /\ field = "timeFormat" => version = "20250412"
    /\ typed \in TypedValues(field)
    /\ budget > 0
    /\ budget' = budget - 1
    /\ Assign(i, [SettingsAt(i) EXCEPT ![field] = TrimValue(typed)])
    /\ last' = NoRun
    /\ race' = NoRace
    /\ UNCHANGED <<version, stored, files, clock, boot, modals, orphans, strays,
                   pending, runs>>

\* the button next to a path setting in the settings tab of instance i
\* (current version): a FileSuggestModal opens for that setting
OpenChooser(i, field) ==
    /\ i \in Instances
    /\ TabOf(i)
    /\ version = "current"
    /\ field \in {"taskFile", "doneFile"}
    /\ budget > 0
    /\ budget' = budget - 1
    /\ SetModals(i, Append(ModalsOf(i), field))
    /\ last' = NoRun
    /\ UNCHANGED <<version, settings, stored, saves, files, clock, boot, orphans,
                   strays, pending, runs, race>>

\* a file of the vault is chosen in the m-th FileSuggestModal instance i has
\* open, whether the instance is still loaded or not: onChooseItem calls the
\* callback, which assigns the path and calls saveSettings(); the modal
\* closes
ChooseFile(i, m, path) ==
    /\ i \in Instances
    /\ m \in 1..Len(ModalsOf(i))
    /\ files[path].exists
    /\ IF i = 0
       THEN /\ settings' = [settings EXCEPT ![modals[m]] = path]
            /\ modals' = Without(modals, m)
            /\ saves' = Append(saves, settings')
            /\ UNCHANGED olds
       ELSE /\ olds' = [olds EXCEPT ![i].cfg[olds[i].modals[m]] = path,
                                    ![i].modals = Without(@, m)]
            /\ saves' = Append(saves, olds'[i].cfg)
            /\ UNCHANGED <<settings, modals>>
    /\ last' = NoRun
    /\ race' = NoRace
    /\ UNCHANGED <<version, stored, files, clock, boot, orphans, strays, pending,
                   runs, budget>>

\* the m-th FileSuggestModal instance i has open is closed with nothing
\* chosen
CloseChooser(i, m) ==
    /\ i \in Instances
    /\ m \in 1..Len(ModalsOf(i))
    /\ SetModals(i, Without(ModalsOf(i), m))
    /\ last' = NoRun
    /\ UNCHANGED <<version, settings, stored, saves, files, clock, boot, orphans,
                   strays, pending, runs, budget, race>>

\* await this.saveData(this.settings) of the oldest call under way: the plugin
\* data becomes the settings it was given, or the write rejects
SaveData(reject) ==
    /\ saves # <<>>
    /\ stored' = IF reject THEN stored ELSE Head(saves)
    /\ saves' = Tail(saves)
    /\ last' = NoRun
    /\ UNCHANGED <<version, olds, modals, settings, files, clock, boot, orphans, strays, pending,
                   runs, budget, race>>

----------------------------------------------------------------------------
(* Initial states *)

L_Checked == <<"-", " ", "[", "x", "]", " ", "a", " ", "(">> \o FormatDate(1) \o <<")">>
L_Star == <<"\f", "*", "\t", "[", "X", "]", " ", "b", " ", "(", "k", ")", "NBSP">>
L_Bare == <<"-", " ", " ", "[", "x", "]", "d">>
L_Open == <<"-", " ", "[", " ", "]", " ", "c">>
L_Other == HeaderMarker \o <<"m">>
L_Blank == <<>>
L_Old == <<"-", " ", "[", "x", "]", " ", "z">>
L_Head == <<" ">> \o DateHeader(1) \o <<" ">>
L_Indent == <<" ">> \o L_Other

\* a task whose closing group (the date) follows a "(" that is never closed
L_Nested == <<"-", " ", "[", "x", "]", " ", "a", " ", "(", "b", " ", "(">>
            \o FormatDate(1) \o <<")">>

L_Mention == <<"-", " ", "[", "x", "]", " ", "(">> \o FormatDate(1) \o <<")", " ", "w">>

\* the lines the task file is made of initially
TaskLines == {RepeatHeader, L_Other, L_Checked, L_Nested, L_Star, L_Bare, L_Open}

\* the lines of a task file with sections: headers flush and indented, tasks
\* that name a date at their end or elsewhere
SectionLines == {RepeatHeader, L_Other, L_Indent, L_Checked, L_Mention, L_Bare, L_Open}

\* the lines the archive file is made of initially
ArchiveLines == {DateHeader(1), L_Head, L_Other, L_Indent, L_Old, L_Blank}

RECURSIVE SeqsUpTo(_, _)
SeqsUpTo(S, n) ==
    IF n = 0 THEN {<<>>}
    ELSE LET shorter == SeqsUpTo(S, n - 1) IN
         shorter \cup {Append(q, x) : q \in {r \in shorter : Len(r) = n - 1}, x \in S}

\* the contents made of 1..n lines of S
Contents(S, n) == {Join(ls) : ls \in SeqsUpTo(S, n) \ {<<>>}}

\* a few archive files: absent, empty, or holding earlier entries
ArchiveFiles ==
    {Missing, File(<<>>),
     File(Join(<<DateHeader(1), L_Old>>)),
     File(Join(<<L_Blank, L_Head, L_Old>>)),
     File(Join(<<DateHeader(1), L_Old, L_Other, L_Old, L_Blank>>))}

\* fewer of them: absent, with today's section and a later one, with an
\* indented date header after a blank line
SomeArchives ==
    {Missing,
     File(Join(<<DateHeader(1), L_Old, L_Other, L_Old, L_Blank>>)),
     File(Join(<<L_Blank, L_Head, L_Old>>))}

\* a few task files with something to archive
TaskFiles ==
    {File(Join(<<L_Bare>>)),
     File(Join(<<L_Open, RepeatHeader, L_Checked>>)),
     File(Join(<<RepeatHeader, L_Star, L_Other, L_Checked, L_Blank>>))}

\* the lines of the task file the user may tick
MaxUserLine == MaxLines + 2

Versions == {"current", "20250412"}

InitCommon ==
    /\ clock = Start
    /\ boot = Off
    /\ settings = DEFAULT_SETTINGS
    /\ saves = <<>>
    /\ modals = <<>>
    /\ olds = <<>>
    /\ orphans = <<>>
    /\ strays = <<>>
    /\ pending = <<>>
    /\ runs = [p \in Procs |-> Idle]
    /\ last = NoRun
    /\ race = NoRace

\* the longest task file of a version: an edit starts two invocations in the
\* 20250412 version (modify and editor-change), one in the current version
LinesOf(v) == IF v = "current" THEN MaxLines ELSE MaxLines - 1

\* any small task file, a few archives, one event of the environment
Init ==
    /\ InitCommon
    /\ budget = 1
    /\ version \in Versions
    /\ stored = DEFAULT_SETTINGS
    /\ \E c \in Contents(TaskLines, LinesOf(version)), a \in SomeArchives :
         files = [p \in Paths |-> IF p = TaskPath THEN File(c) ELSE a]

\* a few task files (one in the 20250412 version), any small archive or none,
\* one event of the environment
InitArchive ==
    /\ InitCommon
    /\ budget = 1
    /\ version \in Versions
    /\ stored = DEFAULT_SETTINGS
    /\ \E t \in IF version = "current" THEN TaskFiles ELSE {File(Join(<<L_Bare>>))},
          a \in {Missing} \cup {File(c) : c \in Contents(ArchiveLines, MaxArchiveLines)} :
         files = [p \in Paths |-> IF p = TaskPath THEN t ELSE a]

\* the task files and the archives a version starts from when the environment
\* has several events, each with the number of events considered from it: a
\* task file with a box to tick (20250412) or a completed task to archive
\* (current) and an archive with sections, and for the current version also
\* a recurring task due today and no archive, with one event (loading it
\* leaves a box to tick)
DeepFiles(v) ==
    IF v = "current"
    THEN {<<File(Join(<<L_Bare>>)),
            File(Join(<<DateHeader(1), L_Old, L_Other, L_Old, L_Blank>>)), MaxEvents>>,
          <<File(Join(<<RepeatHeader, L_Checked>>)), Missing, 1>>}
    ELSE {<<File(Join(<<L_Open>>)),
            File(Join(<<DateHeader(1), L_Old, L_Other, L_Old, L_Blank>>)), MaxEvents>>}

\* several events of the environment
InitDeep ==
    /\ InitCommon
    /\ version \in Versions
    /\ stored = DEFAULT_SETTINGS
    /\ \E d \in DeepFiles(version) :
         /\ budget = d[3]
         /\ files = [p \in Paths |-> IF p = TaskPath THEN d[1] ELSE d[2]]

\* any small task file with sections (the current version has them), two
\* archives, one event of the environment
InitSections ==
    /\ InitCommon
    /\ budget = 1
    /\ version = "current"
    /\ stored = DEFAULT_SETTINGS
    /\ \E c \in Contents(SectionLines, MaxLines),
          a \in {Missing, File(Join(<<DateHeader(1), L_Old>>))} :
         files = [p \in Paths |-> IF p = TaskPath THEN File(c) ELSE a]

\* the plugin data loadData returns names any path for either file and any
\* format
InitPaths ==
    /\ InitCommon
    /\ budget = 1
    /\ version = "current"
    /\ stored \in [taskFile : Paths, doneFile : Paths,
                   dateFormat : DateFormats, timeFormat : {""}]
    /\ \E t \in TaskFiles, a \in ArchiveFiles :
         files = [p \in Paths |-> IF p = TaskPath THEN t ELSE a]

\* a few task files and archives, one event of the environment, which can be
\* the edit that starts two invocations
InitRace ==
    /\ InitCommon
    /\ budget = 1
    /\ version \in Versions
    /\ stored = DEFAULT_SETTINGS
    /\ \E t \in TaskFiles, a \in ArchiveFiles :
         files = [p \in Paths |-> IF p = TaskPath THEN t ELSE a]

Next ==
    \/ OnloadCall
    \/ \E r \in BOOLEAN : OnloadStart(r)
    \/ \E r \in BOOLEAN : OnloadRead(r)
    \/ \E r \in BOOLEAN : OnloadModify(r)
    \/ Unload
    \/ \E k \in 1..MaxStrays, r \in BOOLEAN : OrphanLoad(k, r)
    \/ \E k \in 1..MaxStrays, r \in BOOLEAN : OrphanRead(k, r)
    \/ \E k \in 1..MaxStrays, r \in BOOLEAN : OrphanModify(k, r)
    \/ \E k \in 1..MaxPending, r \in BOOLEAN :
         \E at \in ReadingsFor(k) : HandleModify(k, at, r)
    \/ \E p \in Procs, r \in BOOLEAN : PassModifyTask(p, r)
    \/ \E p \in Procs, r \in BOOLEAN : PassCreate(p, r)
    \/ \E p \in Procs, r \in BOOLEAN : PassReadDone(p, r)
    \/ \E p \in Procs, r \in BOOLEAN : PassModifyDone(p, r)
    \/ \E p \in Paths, i \in 1..MaxUserLine : UserCheck(p, i)
    \/ \E p \in Paths : UserSave(p)
    \/ Tick
    \/ \E i \in Instances, f \in Fields : \E t \in TypedValues(f) : ChangeSetting(i, f, t)
    \/ \E i \in Instances, f \in Fields : OpenChooser(i, f)
    \/ \E i \in Instances : \E m \in 1..Len(ModalsOf(i)), p \in Paths : ChooseFile(i, m, p)
    \/ \E i \in Instances : \E m \in 1..Len(ModalsOf(i)) : CloseChooser(i, m)
    \/ \E r \in BOOLEAN : SaveData(r)

Spec == Init /\ [][Next]_vars
SpecArchive == InitArchive /\ [][Next]_vars
SpecDeep == InitDeep /\ [][Next]_vars
SpecPaths == InitPaths /\ [][Next]_vars
SpecSections == InitSections /\ [][Next]_vars
SpecRace == InitRace /\ [][Next]_vars

----------------------------------------------------------------------------
(* Vocabulary of the properties *)

\* the task file as the last run left it when it wrote it (as it read it when
\* it wrote nothing), and the archive file as it is now
TaskAfter == last.taskAfter
Archive == files[settings.doneFile]

\* the last run that ended was a pass of processTaskFile whose read resolved /
\* a pass that met no rejection and wrote both files / the startup check of
\* the current version, no await of it rejected
Passed == last.op = "pass" /\ ~(last.failed /\ last.writes = 0)
Archived == last.op = "pass" /\ last.writes > 0 /\ ~last.failed
Checked == last.op = "onload" /\ ~last.failed

\* the lines the last run read, the archive lines it read and those it wrote
SrcLines == Split(last.src)
OldArchive == Split(last.archRead)
NewArchive == Split(last.archAfter)

\* the date header of the last pass, and its day: the pass ran within one
\* day, from the first iteration of its loop to its date header
LastHeader == DateHeaderAs(last.dateFormat, last.headerDay)
OneDay == \A i \in 1..Len(last.at) : Today(last.at[i]) = last.headerDay

\* a header line, as the data model has it
IsHeaderLine(line) == StartsWith(Trim(line), HeaderMarker)

\* line i of lines lies in the recurring section: the nearest header line
\* above it is the recurring header
InRecurring(lines, i) ==
    \E j \in 1..(i - 1) :
       /\ Trim(lines[j]) = RepeatHeader
       /\ \A k \in (j + 1)..(i - 1) : ~IsHeaderLine(lines[k])

\* how many of the first n lines are checked tasks outside the recurring section
RECURSIVE PlainCheckedUpTo(_, _)
PlainCheckedUpTo(lines, n) ==
    IF n = 0 THEN 0
    ELSE PlainCheckedUpTo(lines, n - 1)
         + (IF IsChecked(lines[n]) /\ ~InRecurring(lines, n) THEN 1 ELSE 0)

\* the text of a task line per the data model: what stands between the box
\* and the last parenthesized group that ends the line, trimmed
TextOf(line) ==
    LET u == AfterMarker(line)
        body == Trim(SubSeq(u, 4, Len(u)))
        opens == {i \in 1..Len(body) : body[i] = "("}
    IN IF body # <<>> /\ body[Len(body)] = ")" /\ opens # {}
       THEN LET o == CHOOSE i \in opens : \A j \in opens : j <= i
            IN Trim(SubSeq(body, 1, o - 1))
       ELSE body

\* line k of the archive lines lies in the section a line equal (after trim)
\* to header opens: no line beginning with "### " stands in between
InSectionOf(lines, k, header) ==
    \E h \in 1..(k - 1) :
       /\ Trim(lines[h]) = header
       /\ \A j \in (h + 1)..k : ~StartsWith(lines[j], HeaderMarker)

\* how many lines equal header after trim
RECURSIVE HeaderCount(_, _)
HeaderCount(lines, header) ==
    IF lines = <<>> THEN 0
    ELSE (IF Trim(Head(lines)) = header THEN 1 ELSE 0) + HeaderCount(Tail(lines), header)

----------------------------------------------------------------------------
(* C1 *)

\* C1: re-trigger termination: whatever the task-file and archive-file paths,
\* a pass started by a notification of the core's own write finds no completed
\* task and writes nothing, so the chain of passes ends: no such pass gets
\* past the return on nothing completed.
C1_OwnWriteIsNoop ==
    /\ (Passed /\ last.origin = "own") => last.writes = 0
    /\ \A p \in Procs : runs[p].origin # "own"

----------------------------------------------------------------------------
(* C2 *)

\* C2: extraction is idempotent: the lines a pass keeps hold no checked task;
\* the loop run again on them, and a second pass on the content written from
\* them, complete nothing and keep the same lines.
C2_ExtractIdempotent ==
    Passed =>
      /\ \A i \in 1..Len(last.remaining) : ~IsChecked(last.remaining[i])
      /\ \A c \in Clocks, tf \in TimeFormats :
           /\ \A again \in {ExtractLines(version, last.remaining,
                                         Still(Len(last.remaining), c),
                                         last.dateFormat, tf)} :
                /\ again.doneTasks = <<>>
                /\ again.remaining = last.remaining
           /\ \A back \in {Split(Join(last.remaining))} :
              \A again \in {ExtractLines(version, back, Still(Len(back), c),
                                         last.dateFormat, tf)} :
                /\ again.doneTasks = <<>>
                /\ Join(again.remaining) = Join(last.remaining)

\* a pass of the current version that rewrote a recurring task and removed a plain one
C2_Witness ==
    /\ Passed /\ version = "current"
    /\ Len(last.doneTasks) >= 2
    /\ Len(last.remaining) = Len(SrcLines) - 1
    /\ \E i \in 1..Len(SrcLines) : IsChecked(SrcLines[i]) /\ InRecurring(SrcLines, i)

----------------------------------------------------------------------------
(* C3, C4 *)

\* the place in the kept lines of line i of the lines read, when it is kept
PlaceOf(i) == i - PlainCheckedUpTo(SrcLines, i)

\* the archive holds line, trimmed, in the section of the day of the last pass
ArchivedToday(line) ==
    \E k \in 1..Len(NewArchive) :
       /\ NewArchive[k] = Trim(line)
       /\ InSectionOf(NewArchive, k, LastHeader)

\* C3: after a pass on day d, a checked task of the recurring section,
\* whatever its annotation, is no longer checked in the task file, stands in
\* its place as "- [ ] <task text> (<d+1>)" with the same task text, and the
\* archive holds the original line, trimmed, under the header "### <d>".
C3_RecurringRescheduled ==
    (Archived /\ version = "current" /\ OneDay) =>
      \A kept \in {Split(TaskAfter)} :
      \A i \in 1..Len(SrcLines) :
         (IsChecked(SrcLines[i]) /\ InRecurring(SrcLines, i)) =>
            /\ PlaceOf(i) \in 1..Len(kept)
            /\ kept[PlaceOf(i)] =
                 <<"-", " ", "[", " ", "]", " ">> \o TextOf(SrcLines[i])
                   \o <<" ", "(">> \o MomentDate(last.dateFormat, last.day + 1) \o <<")">>
            /\ \A q \in 1..Len(kept) : ~IsChecked(kept[q])
            /\ ArchivedToday(SrcLines[i])

\* C4: after a pass, a checked task outside the recurring section is gone
\* from the task file with no line in its place, and the archive holds it,
\* trimmed and with nothing appended, in the section of today's date header.
C4_PlainRemoved ==
    (Archived /\ version = "current" /\ OneDay) =>
      /\ TaskAfter = Join(last.remaining)
      /\ Len(last.remaining) = Len(SrcLines) - PlainCheckedUpTo(SrcLines, Len(SrcLines))
      /\ \A kept \in {Split(TaskAfter)} :
         \A i \in 1..Len(SrcLines) :
           (IsChecked(SrcLines[i]) /\ ~InRecurring(SrcLines, i)) =>
              /\ \A q \in 1..Len(kept) : ~IsChecked(kept[q])
              /\ ArchivedToday(SrcLines[i])

\* a pass archived an indented plain task into an archive that had today's section
C4_Witness ==
    /\ Archived /\ version = "current"
    /\ last.arch.exists /\ HeaderCount(OldArchive, LastHeader) = 1
    /\ \E i \in 1..Len(SrcLines) : SrcLines[i] = L_Star /\ ~InRecurring(SrcLines, i)

----------------------------------------------------------------------------
(* C5, C6, C7 *)

\* the days a pass can run on, and the date headers it can write
Days == {Today(c) : c \in Clocks}
DateHeaders == {DateHeaderAs(f, d) : f \in DateFormats, d \in Days}

\* C5: one header per date: from an archive with at most one header line per
\* date, the archive keeps at most one line equal (after trim) to each date
\* header through any passes on any days; a pass that archives leaves exactly
\* one header of its day, adding it only when the archive had none.
C5_OneHeaderPerDate ==
    /\ \A p \in Paths :
       \A now \in {Split(files[p].content)} :
          \A h \in DateHeaders : HeaderCount(now, h) <= 1
    /\ Archived =>
         /\ HeaderCount(NewArchive, LastHeader) = 1
         /\ \A h \in DateHeaders \ {LastHeader} :
              HeaderCount(NewArchive, h) = HeaderCount(OldArchive, h)

\* passes on two days: the archive holds the sections of both, and the last
\* pass added to a section that was there
C5_Witness ==
    /\ Archived /\ last.headerDay = 2
    /\ HeaderCount(OldArchive, DateHeader(2)) = 1
    /\ HeaderCount(NewArchive, DateHeader(1)) = 1
    /\ HeaderCount(NewArchive, DateHeader(2)) = 1

\* C6: merge into an archive with no line equal (after trim) to the date
\* header: the written archive ends with the date header followed by the
\* completed lines in their order, and nothing after them.
C6_NewSectionIsTail ==
    (Archived /\ HeaderCount(OldArchive, LastHeader) = 0) =>
      LET n == Len(NewArchive)
          t == last.doneTasks
      IN /\ n >= Len(t) + 1
         /\ SubSeq(NewArchive, n - Len(t), n) = <<LastHeader>> \o t

\* two completed lines were merged into a non-empty archive without the section
C6_Witness ==
    /\ Archived /\ HeaderCount(OldArchive, LastHeader) = 0
    /\ last.arch.exists /\ Trim(last.arch.content) # <<>>
    /\ Len(last.doneTasks) >= 2

\* the target section of the archive read by the last pass: its header line,
\* the last line of the section, and the lines of the later sections
TargetHeader == CHOOSE h \in 1..Len(OldArchive) : Trim(OldArchive[h]) = LastHeader
TargetEnd ==
    LET nexts == {j \in (TargetHeader + 1)..Len(OldArchive) :
                     StartsWith(OldArchive[j], HeaderMarker)}
    IN IF nexts = {} THEN Len(OldArchive)
       ELSE (CHOOSE j \in nexts : \A k \in nexts : j <= k) - 1
TargetBody == SubSeq(OldArchive, TargetHeader + 1, TargetEnd)
LaterLines == SubSeq(OldArchive, TargetEnd + 1, Len(OldArchive))
MergedOnce == Archived /\ HeaderCount(OldArchive, LastHeader) = 1

\* C7 as stated: merge into an archive that has the target date section: the
\* completed lines stand after every line of that section and immediately
\* before the next "### " line (or end the document), and every line of every
\* later section is unchanged and in order.
C7_AsStated ==
    MergedOnce =>
      \E p \in 1..Len(NewArchive) :
         /\ Trim(NewArchive[p]) = LastHeader
         /\ SubSeq(NewArchive, p + 1, Len(NewArchive))
              = (TargetBody \o last.doneTasks) \o LaterLines

\* C7 amended: as stated, except that the white space that ends the document
\* (trailing blank lines, blanks ending the last line) is removed.
C7_AppendedToSection ==
    MergedOnce =>
      \E p \in 1..Len(NewArchive) :
         /\ Trim(NewArchive[p]) = LastHeader
         /\ Join(SubSeq(NewArchive, p + 1, Len(NewArchive)))
              = TrimEnd(Join((TargetBody \o last.doneTasks) \o LaterLines))
         /\ LaterLines = <<>> =>
              SubSeq(NewArchive, p + 1, Len(NewArchive)) = TargetBody \o last.doneTasks

\* the target section had lines of its own and a later section followed it
C7_Witness ==
    /\ MergedOnce
    /\ TargetBody # <<>>
    /\ LaterLines # <<>>

----------------------------------------------------------------------------
(* C8, C9, C10 *)

\* C8: a failed write leaves the task file untouched: when a write of a pass
\* fails, the task file holds what it held before the pass; a pass attempts at
\* most one mutation of a document.
C8_FailedWriteLeavesTask ==
    Passed =>
      /\ last.failed => TaskAfter = last.src
      /\ last.writes <= 1

\* C9: no-op on nothing completed: a pass over a task file without a checked
\* task writes neither file, does not create the archive, and raises no
\* notification of its own.
C9_NoopWhenNothingChecked ==
    [][(/\ last' # last
        /\ last'.op = "pass" /\ ~(last'.failed /\ last'.writes = 0)
        /\ \A lines \in {Split(last'.src)} :
             \A i \in 1..Len(lines) : ~IsChecked(lines[i]))
       => /\ last'.writes = 0
          /\ last'.raised = 0
          /\ files' = files
          /\ Len(pending') < Len(pending)]_vars

\* a pass of the 20250412 version, started by the user's save, found nothing
\* checked while the archive file did not exist
C9_Witness ==
    /\ Passed /\ last.origin = "external" /\ version = "20250412"
    /\ \A i \in 1..Len(SrcLines) : ~IsChecked(SrcLines[i])
    /\ \E i \in 1..Len(SrcLines) : IsUnchecked(SrcLines[i])
    /\ ~Archive.exists
    /\ last.writes = 0

\* String.prototype.endsWith
EndsWith(s, p) == Len(s) >= Len(p) /\ SubSeq(s, Len(s) - Len(p) + 1, Len(s)) = p

\* line i read by the startup check is a checked recurring task annotated with
\* the day of the check
DueToday(i) ==
    /\ IsChecked(SrcLines[i])
    /\ InRecurring(SrcLines, i)
    /\ EndsWith(Trim(SrcLines[i]), <<"(">> \o MomentDate(last.dateFormat, last.day) \o <<")">>)

\* C10: the repeat-date check flips once: a checked recurring task annotated
\* with today's date is rewritten unchecked with the same text and date, the
\* change is reported and the task file written; the check run again on the
\* result reports no change.
C10_RepeatCheckFlipsOnce ==
    Checked =>
      /\ \A i \in 1..Len(SrcLines) :
           DueToday(i) =>
             /\ last.changed
             /\ Split(TaskAfter)[i] =
                  <<"-", " ", "[", " ", "]", " ">> \o TextOf(SrcLines[i])
                    \o <<" ", "(">> \o MomentDate(last.dateFormat, last.day) \o <<")">>
      /\ TaskAfter = Join(last.remaining)
      /\ \A again \in {CheckRepeat(TaskAfter, last.day, last.dateFormat)} :
           /\ ~again.hasChanges
           /\ Join(again.updatedLines) = TaskAfter

----------------------------------------------------------------------------
(* C11 *)

\* a line of white space only
IsBlank(line) == Trim(line) = <<>>

\* lines without the blank lines that end it
RECURSIVE DropBlankEnd(_)
DropBlankEnd(lines) ==
    IF lines = <<>> THEN <<>>
    ELSE IF IsBlank(lines[Len(lines)]) THEN DropBlankEnd(SubSeq(lines, 1, Len(lines) - 1))
    ELSE lines

\* lines without the blank lines that begin it
RECURSIVE DropBlankStart(_)
DropBlankStart(lines) ==
    IF lines = <<>> THEN <<>>
    ELSE IF IsBlank(Head(lines)) THEN DropBlankStart(Tail(lines))
    ELSE lines

\* line k of new is the line old: verbatim, or, the document being trimmed on
\* the right, less the blanks that would end it; when both is set also less
\* the blanks that would begin it
SameLine(old, new, k, both) ==
    \/ new[k] = old
    \/ k = Len(new) /\ new[k] = TrimEnd(old)
    \/ both /\ k = 1 /\ new[k] = TrimStart(old)
    \/ both /\ k = 1 /\ k = Len(new) /\ new[k] = Trim(old)

\* the lines old[i..] stand among new[k..] in their order
RECURSIVE Embeds(_, _, _, _, _)
Embeds(old, i, new, k, both) ==
    IF i > Len(old) THEN TRUE
    ELSE IF k > Len(new) THEN FALSE
    ELSE IF SameLine(old[i], new, k, both) THEN Embeds(old, i + 1, new, k + 1, both)
    ELSE Embeds(old, i, new, k + 1, both)

\* C11: a merge preserves the archive: every line of the archive read stands
\* verbatim and in its order in the archive written; only the blank lines that
\* end the document are removed, the result being trimmed on the right.
C11_ArchivePreserved ==
    Archived =>
      /\ Embeds(DropBlankEnd(OldArchive), 1, NewArchive, 1, FALSE)
      /\ last.archAfter = TrimEnd(last.archAfter)

----------------------------------------------------------------------------
(* C12, C16 *)

\* the first line of the archive read that equals (after trim) the date header
FirstHeader ==
    CHOOSE h \in 1..Len(OldArchive) :
       /\ Trim(OldArchive[h]) = LastHeader
       /\ \A g \in 1..(h - 1) : Trim(OldArchive[g]) # LastHeader

\* the last line of the section FirstHeader opens, the later lines equal to the
\* date header counting as ordinary content: the section runs up to the next
\* line that begins with "### " and is not the date header
FirstSectionEnd ==
    LET nexts == {j \in (FirstHeader + 1)..Len(OldArchive) :
                     /\ StartsWith(OldArchive[j], HeaderMarker)
                     /\ Trim(OldArchive[j]) # LastHeader}
    IN IF nexts = {} THEN Len(OldArchive)
       ELSE (CHOOSE j \in nexts : \A k \in nexts : j <= k) - 1

\* C12: duplicate date headers: when the archive read holds two or more lines
\* equal to the date header, the completed lines are inserted at the end of the
\* section the first one opens and nowhere else; a later identical header is
\* ordinary content.
C12_FirstHeaderWins ==
    (Archived /\ HeaderCount(OldArchive, LastHeader) >= 2) =>
      last.archAfter =
        Trim(Join((SubSeq(OldArchive, 1, FirstSectionEnd) \o last.doneTasks)
                    \o SubSeq(OldArchive, FirstSectionEnd + 1, Len(OldArchive))))

\* a task line, ticked or not
IsTask(line) == IsChecked(line) \/ IsUnchecked(line)

\* how many of the lines are task lines
RECURSIVE TaskCount(_)
TaskCount(lines) ==
    IF lines = <<>> THEN 0
    ELSE (IF IsTask(Head(lines)) THEN 1 ELSE 0) + TaskCount(Tail(lines))

\* C16: exactly-once insertion: whatever the archive read (several lines equal
\* to the date header included), the archive written by a pass has as many
\* more task lines than the archive read as the pass completed lines.
C16_InsertedOnce ==
    Archived => TaskCount(NewArchive) = TaskCount(OldArchive) + Len(last.doneTasks)

----------------------------------------------------------------------------
(* C13, C14, C15 *)

\* C13: the repeat-date check touches only its target lines: it rewrites a
\* line only when it is a checked task of the recurring section whose trailing
\* annotation is "(today)"; every other line, a checked recurring task that
\* names "(today)" elsewhere included, is left as it was.
C13_OnlyDueRewritten ==
    Checked =>
      \A after \in {Split(TaskAfter)} :
        /\ Len(after) = Len(SrcLines)
        /\ \A i \in 1..Len(SrcLines) : ~DueToday(i) => after[i] = SrcLines[i]

\* the lines kept from the first n lines when the section of a line is that of
\* the nearest header line above it, a header line being one whose trimmed
\* content begins with "### "; at[i] is the clock when line i is met
RECURSIVE KeepBySection(_, _, _, _)
KeepBySection(lines, n, at, dateFormat) ==
    IF n = 0 THEN <<>>
    ELSE KeepBySection(lines, n - 1, at, dateFormat) \o
         (IF IsChecked(lines[n])
          THEN IF InRecurring(lines, n)
               THEN <<UncheckedLine(TaskText(lines[n]),
                                    MomentDate(dateFormat, Today(at[n]) + 1))>>
               ELSE <<>>
          ELSE <<lines[n]>>)

\* the lines the repeat-date check leaves, sections taken the same way
RollBySection(lines, day, dateFormat) ==
    [n \in 1..Len(lines) |->
       IF /\ IsChecked(lines[n])
          /\ InRecurring(lines, n)
          /\ Includes(lines[n], <<"(">> \o MomentDate(dateFormat, day) \o <<")">>)
       THEN UncheckedLine(TaskText(lines[n]), MomentDate(dateFormat, day))
       ELSE lines[n]]

\* C14: section tracking: in the extraction and in the repeat-date check a
\* checked task is treated as recurring exactly when the nearest header line
\* above it (trimmed content beginning with "### ") is the recurring header;
\* any other header line, indented or not, makes the section plain.
C14_SectionByNearestHeader ==
    /\ (Passed /\ version = "current") =>
          last.remaining = KeepBySection(SrcLines, Len(SrcLines), last.at,
                                         last.dateFormat)
    /\ Checked => last.remaining = RollBySection(SrcLines, last.day, last.dateFormat)

\* the checked lines among lines, trimmed, in their order
RECURSIVE CheckedOf(_)
CheckedOf(lines) ==
    IF lines = <<>> THEN <<>>
    ELSE (IF IsChecked(Head(lines)) THEN <<Trim(Head(lines))>> ELSE <<>>)
         \o CheckedOf(Tail(lines))

\* C15: extraction conserves lines: a line that is not a checked task is kept
\* unchanged and in order, a recurring checked line is replaced by one line in
\* its place, the completed lines are the checked lines once each in document
\* order, and |keepLines| = |input| - (number of plain checked lines).
C15_ExtractConserves ==
    (Passed /\ version = "current") =>
      /\ last.doneTasks = CheckedOf(SrcLines)
      /\ Len(last.remaining) = Len(SrcLines) - PlainCheckedUpTo(SrcLines, Len(SrcLines))
      /\ \A i \in 1..Len(SrcLines) :
           /\ PlaceOf(i) \in 1..Len(last.remaining)
                \/ (IsChecked(SrcLines[i]) /\ ~InRecurring(SrcLines, i))
           /\ ~IsChecked(SrcLines[i]) => last.remaining[PlaceOf(i)] = SrcLines[i]
           /\ (IsChecked(SrcLines[i]) /\ InRecurring(SrcLines, i)) =>
                 IsUnchecked(last.remaining[PlaceOf(i)])

----------------------------------------------------------------------------
(* C17 *)

\* two invocations waited to read the same content, and every invocation has
\* run to its end since, the paths of the two files being different
RaceOver ==
    /\ race.on
    /\ race.path # settings.doneFile
    /\ \A p \in Procs : runs[p].pc = "idle"
    /\ pending = <<>>

\* C17: no lost or duplicated archive entry under interleaving: when two
\* passes notified for the same content have interleaved at their awaits in
\* any order and ended, every checked task line of that content is in the
\* archive exactly once (the archive has as many more task lines as the
\* content had checked lines) and no line the archive had is lost.
C17_RaceArchivesOnce ==
    RaceOver =>
      \A now \in {Split(Archive.content)} :
        /\ TaskCount(now)
             = TaskCount(Split(race.arch.content)) + Len(CheckedOf(Split(race.src)))
        /\ Embeds(DropBlankStart(DropBlankEnd(Split(race.arch.content))), 1,
                  now, 1, TRUE)

====
